---- MODULE Spec2Model ----
(***************************************************************************)
(* Model of the certificate chain builder (App.tsx) and of the archive     *)
(* codec and link verification (services/cryptoService.ts) of WiNG         *)
(* Trustpoint Forge.                                                       *)
(*                                                                         *)
(* Byte buffers are sequences of naturals below 256, indexed from 1; the   *)
(* source's zero-based offsets are kept and 1 is added on access.  Strings *)
(* are sequences of character codes.                                       *)
(***************************************************************************)
EXTENDS Integers, Sequences, FiniteSets, TLC

VARIABLES
    \* --- archive codec (createTarball / untar) ---
    files,        \* the (name, content) entries handed to createTarball
    now,          \* the clock reading used for the header's mtime (seconds)
    archive,      \* the byte buffer returned by createTarball
    tpc,          \* "input" | "packed" | "scan" | "done"
    cutAt,        \* -1, or the length the buffer was cut to before untar
    padAt,        \* -1, or the offset where a zero block was put in before untar
    uOffset,      \* untar: let offset
    uFiles        \* untar: const files

VARIABLES
    \* --- link verification (verifyParent), as a function under test ---
    vChild,       \* the childPem argument
    vParent,      \* the parentPem argument
    vResult       \* "none" before the call, then [prim, value]

VARIABLES
    \* --- chain builder (App) ---
    step,         \* AppStep
    certPem,      \* the leaf's text as uploaded, or NoPem
    certInfo,     \* the parsed leaf, or NoInfo
    chainItems,   \* the chain, closest issuer first
    runs,         \* the calls of resolveChain that await a fetch
    last          \* the last handler that ran, its input and its outcome

VARIABLES
    \* --- header numeric fields (writeOctal / readOctal), under test ---
    oBuf,         \* the buffer argument, then the buffer after the write
    oOffset,      \* the offset argument
    oLen,         \* the len argument: the field width
    oVal,         \* the val argument
    oBefore,      \* the buffer as it was passed
    oRead,        \* what readOctal returned for the field
    opc           \* "input" | "written" | "read"

VARIABLES
    \* --- one call of fetchCertificate ---
    fUrl,         \* the url argument
    fpc,          \* where the call stands: "direct" | "proxy" | "returned" | "thrown"
    fLog,         \* the requests made so far and how each ended
    fResult       \* the PEM returned, NoPem before that

VARIABLES
    \* --- validation of an uploaded archive (processTarForValidation) ---
    rFiles,       \* what untar returned for the uploaded buffer
    rNow,         \* new Date() at the time of validation
    report        \* the value given to setValidationResult

VARIABLES
    \* --- certificate request form (CertRequester) ---
    status,       \* 'idle' | 'requesting' | 'processing' | 'completed' | 'failed'
    isApiHealthy, \* the result of the last health check
    subdomainOk,  \* the subdomain typed has at least 3 characters
    logs,         \* the number of log lines shown
    ws,           \* wsRef.current: "none" | "connecting" | "open" | "closed"
    posts,        \* the POSTs to /issue_cert that await their response
    submitted     \* the requests submitted so far

tarVars == <<files, now, archive, tpc, cutAt, padAt, uOffset, uFiles>>
verifyVars == <<vChild, vParent, vResult>>
appVars == <<step, certPem, certInfo, chainItems, runs, last>>
octVars == <<oBuf, oOffset, oLen, oVal, oBefore, oRead, opc>>
fetchVars == <<fUrl, fpc, fLog, fResult>>
valVars == <<rFiles, rNow, report>>
reqVars == <<status, isApiHealthy, subdomainOk, logs, ws, posts, submitted>>
extVars == <<octVars, fetchVars, valVars, reqVars>>
restVars == <<tarVars, verifyVars, appVars, octVars, fetchVars, valVars>>

vars == <<tarVars, verifyVars, appVars, extVars>>

-----------------------------------------------------------------------------
(* Generic helpers *)

Min(a, b) == IF a < b THEN a ELSE b
Max(a, b) == IF a > b THEN a ELSE b

Rep(c, n) == [i \in 1..n |-> c]

Zeros(n) == Rep(0, n)

\* Concatenation of f(lo) \o ... \o f(hi), by halving (keeps the evaluation shallow)
RECURSIVE ConcatRange(_, _, _)
ConcatRange(f, lo, hi) ==
    IF lo > hi THEN <<>>
    ELSE IF lo = hi THEN f[lo]
    ELSE LET mid == (lo + hi) \div 2
         IN  ConcatRange(f, lo, mid) \o ConcatRange(f, mid + 1, hi)

RECURSIVE SumRange(_, _, _)
SumRange(f, lo, hi) ==
    IF lo > hi THEN 0
    ELSE IF lo = hi THEN f[lo]
    ELSE LET mid == (lo + hi) \div 2
         IN  SumRange(f, lo, mid) + SumRange(f, mid + 1, hi)

-----------------------------------------------------------------------------
(* Text encoding: TextEncoder / TextDecoder (UTF-8), for code points below *)
(* 0x800 (one- and two-byte sequences).                                    *)

ReplacementChar == 65533

Utf8EncodeChar(c) ==
    IF c < 128 THEN <<c>>
    ELSE <<192 + (c \div 64), 128 + (c % 64)>>

TextEncode(str) ==
    ConcatRange([i \in 1..Len(str) |-> Utf8EncodeChar(str[i])], 1, Len(str))

IsLead2(b) == b >= 194 /\ b <= 223
IsCont(b) == b >= 128 /\ b <= 191

\* A lead byte is never a continuation byte, so byte i is swallowed by the
\* character before it exactly when byte i-1 is a lead and byte i a continuation.
TextDecode(bytes) ==
    LET n == Len(bytes)
        swallowed(i) == i > 1 /\ IsLead2(bytes[i - 1]) /\ IsCont(bytes[i])
        charAt(i) ==
            IF swallowed(i) THEN <<>>
            ELSE IF bytes[i] < 128 THEN <<bytes[i]>>
            ELSE IF IsLead2(bytes[i]) /\ i < n /\ IsCont(bytes[i + 1])
                 THEN <<(bytes[i] - 192) * 64 + (bytes[i + 1] - 128)>>
            ELSE <<ReplacementChar>>
    IN  ConcatRange([i \in 1..n |-> charAt(i)], 1, n)

-----------------------------------------------------------------------------
(* TAR helper functions *)

BlockSize == 512
NameFieldLen == 100
FileMode == 420       \* 0o644
OwnerId == 512        \* 0o1000
TypeFile == 48        \* '0'

\* Number.prototype.toString(8) for val >= 0
RECURSIVE ToOctal(_)
ToOctal(val) ==
    IF val < 8 THEN <<48 + val>>
    ELSE Append(ToOctal(val \div 8), 48 + (val % 8))

\* buffer[k] = v on a Uint8Array: a store outside the array is ignored,
\* the value is reduced modulo 256
Store(buffer, k, v) ==
    IF k >= 0 /\ k < Len(buffer) THEN [buffer EXCEPT ![k + 1] = v % 256] ELSE buffer

writeString(buffer, offset, str, len) ==
    [k \in 1..Len(buffer) |->
        IF k - 1 >= offset /\ k - 1 < offset + Min(len, Len(str))
        THEN str[k - offset] % 256
        ELSE buffer[k]]

\* (variant of writeOctal: the field is padded with spaces)
writeOctalSpacePadded(buffer, offset, len, val) ==
    LET s == ToOctal(val)
        idx == len - Len(s) - 1
        i == Max(idx, 0)
        padded == [k \in 1..Len(buffer) |->
                     IF k - 1 >= offset /\ k - 1 < offset + i THEN 32
                     ELSE IF k - 1 >= offset + i /\ k - 1 < offset + i + Len(s)
                          THEN s[k - offset - i]
                     ELSE buffer[k]]
    IN  Store(padded, offset + len - 1, 0)

writeOctal(buffer, offset, len, val) ==
    LET s == ToOctal(val)
        idx == len - Len(s) - 1
        i == Max(idx, 0)
        padded == [k \in 1..Len(buffer) |->
                     IF k - 1 >= offset /\ k - 1 < offset + i THEN 48
                     ELSE IF k - 1 >= offset + i /\ k - 1 < offset + i + Len(s)
                          THEN s[k - offset - i]
                     ELSE buffer[k]]
    IN  Store(padded, offset + len - 1, 0)

Space8 == Rep(32, 8)
Ustar == <<117, 115, 116, 97, 114>>
UstarVersion == <<48, 48>>

createTarHeader(filename, size, clock) ==
    LET b0 == Zeros(BlockSize)
        b1 == writeString(b0, 0, filename, NameFieldLen)   \* name
        b2 == writeOctal(b1, 100, 8, FileMode)             \* mode
        b3 == writeOctal(b2, 108, 8, OwnerId)              \* uid
        b4 == writeOctal(b3, 116, 8, OwnerId)              \* gid
        b5 == writeOctal(b4, 124, 12, size)                \* size
        b6 == writeOctal(b5, 136, 12, clock)               \* mtime
        b7 == writeString(b6, 148, Space8, 8)              \* chksum placeholder
        b8 == Store(b7, 156, TypeFile)                     \* type
        b9 == writeString(b8, 157, <<>>, 100)              \* linkname
        b10 == writeString(b9, 257, Ustar, 6)              \* ustar indicator
        b11 == writeString(b10, 263, UstarVersion, 2)      \* ustar version
        chksum == SumRange(b11, 1, BlockSize)
    IN  writeOctal(b11, 148, 8, chksum)

\* (variant of FileBlocks: the padding is pushed also when it is a whole block)
FileBlocksPadAlways(file, clock) ==
    LET contentBytes == TextEncode(file.content)
        header == createTarHeader(file.name, Len(contentBytes), clock)
        padding == BlockSize - (Len(contentBytes) % BlockSize)
    IN  header \o contentBytes \o Zeros(padding)

\* The blocks pushed for one file: header, content, padding
FileBlocks(file, clock) ==
    LET contentBytes == TextEncode(file.content)
        header == createTarHeader(file.name, Len(contentBytes), clock)
        padding == BlockSize - (Len(contentBytes) % BlockSize)
    IN  header \o contentBytes \o (IF padding < BlockSize THEN Zeros(padding) ELSE <<>>)

createTarball(fs, clock) ==
    ConcatRange([i \in 1..Len(fs) |-> FileBlocks(fs[i], clock)], 1, Len(fs))
        \o Zeros(2 * BlockSize)

-----------------------------------------------------------------------------
(* TAR reading *)

\* Uint8Array.prototype.slice(start, end) for integer arguments
Slice(arr, start, end) ==
    LET n == Len(arr)
        from == IF start < 0 THEN Max(n + start, 0) ELSE Min(start, n)
        to == IF end < 0 THEN Max(n + end, 0) ELSE Min(end, n)
    IN  IF to > from THEN SubSeq(arr, from + 1, to) ELSE <<>>

\* untar.readString: the bytes from start up to a NUL or len bytes, decoded
readString(uint8, start, len) ==
    LET stops == {e \in start..(start + len - 1) : e >= Len(uint8) \/ uint8[e + 1] = 0}
        end == IF stops = {} THEN start + len
               ELSE CHOOSE e \in stops : \A f \in stops : e <= f
    IN  TextDecode(Slice(uint8, start, end))

WhiteSpace == {9, 10, 11, 12, 13, 32, 160}
IsOctDigit(c) == c >= 48 /\ c <= 55

RECURSIVE OctValue(_)
OctValue(ds) ==
    IF ds = <<>> THEN 0
    ELSE OctValue(SubSeq(ds, 1, Len(ds) - 1)) * 8 + (ds[Len(ds)] - 48)

\* parseInt(str, 8): leading white space, an optional sign, then the longest
\* run of octal digits; NaN when there is no digit
ParseInt8(str) ==
    LET n == Len(str)
        nonWs == {i \in 1..n : str[i] \notin WhiteSpace}
        first == IF nonWs = {} THEN n + 1
                 ELSE CHOOSE i \in nonWs : \A j \in nonWs : i <= j
        signed == first <= n /\ str[first] \in {43, 45}
        negative == signed /\ str[first] = 45
        d0 == IF signed THEN first + 1 ELSE first
        bad == {i \in d0..n : ~IsOctDigit(str[i])}
        dEnd == IF bad = {} THEN n + 1
                ELSE CHOOSE i \in bad : \A j \in bad : i <= j
        digits == SubSeq(str, d0, dEnd - 1)
    IN  IF digits = <<>> THEN [nan |-> TRUE, val |-> 0]
        ELSE [nan |-> FALSE,
              val |-> IF negative THEN 0 - OctValue(digits) ELSE OctValue(digits)]

readOctal(uint8, start, len) == ParseInt8(readString(uint8, start, len))

\* Math.ceil(a / 512) * 512
CeilToBlock(a) == (0 - ((0 - a) \div BlockSize)) * BlockSize

isNullBlock(uint8, offset) ==
    \A i \in 0..(BlockSize - 1) : uint8[offset + i + 1] = 0

IsFileType(t) == t \in {48, 0, 32}

\* The entry pushed for the header at offset
ExtractedFile(uint8, offset) ==
    LET size == readOctal(uint8, offset + 124, 12)
        contentStart == offset + BlockSize
        contentBytes == IF size.nan THEN <<>>
                        ELSE Slice(uint8, contentStart, contentStart + size.val)
    IN  [name |-> readString(uint8, offset, NameFieldLen),
         content |-> TextDecode(contentBytes),
         size |-> size]


-----------------------------------------------------------------------------
(* X.509 logic.                                                            *)
(*                                                                         *)
(* A certificate is a record of what the code reads from it: its subject   *)
(* and issuer distinguished names, the key it holds, the key that made its *)
(* signature, whether its signature algorithm is one the verification      *)
(* primitive can evaluate, whether it carries an AIA issuer URL, and its   *)
(* serial number.  Its SHA-1 fingerprint is its name.                      *)

Certs ==
    [ leaf  |-> [subject |-> "site",  issuer |-> "CA1",   key |-> "kLeaf", signedBy |-> "kCA1",
                 alg |-> "rsa", aia |-> TRUE,  serial |-> 1],
      int   |-> [subject |-> "CA1",   issuer |-> "Root",  key |-> "kCA1",  signedBy |-> "kRoot",
                 alg |-> "rsa", aia |-> TRUE,  serial |-> 2],
      root  |-> [subject |-> "Root",  issuer |-> "Root",  key |-> "kRoot", signedBy |-> "kRoot",
                 alg |-> "rsa", aia |-> FALSE, serial |-> 1],
      \* the root's key and name, certified by another authority (a cross-certificate)
      cross |-> [subject |-> "Root",  issuer |-> "Other", key |-> "kRoot", signedBy |-> "kOther",
                 alg |-> "rsa", aia |-> TRUE,  serial |-> 4],
      \* names itself CA1 but holds another key
      fake  |-> [subject |-> "CA1",   issuer |-> "Root",  key |-> "kFake", signedBy |-> "kFake",
                 alg |-> "rsa", aia |-> FALSE, serial |-> 5],
      \* signed with an algorithm the primitive cannot evaluate
      odd   |-> [subject |-> "Legacy", issuer |-> "Root", key |-> "kOdd",  signedBy |-> "kRoot",
                 alg |-> "unsupported", aia |-> FALSE, serial |-> 6] ]

CertIds == DOMAIN Certs

\* A PEM text: the certificate it encodes ("none" when it encodes none) and
\* its textual form.  "canon" is what certificateToPem prints; "spaced" is
\* the same certificate with other line breaks; "bare" is base64 without the
\* BEGIN/END lines; "junk" does not decode; NoPem stands for null.
Pem(c, form) == [cert |-> c, form |-> form]
NoPem == Pem("none", "null")
JunkBlock == Pem("none", "junk")
JunkText == Pem("none", "junktext")
Canon(c) == Pem(c, "canon")

\* forge.pki.certificateFromPem(normalizePem(pem)) succeeds
Parses(pem) == pem.cert # "none"

NoInfo == [fingerprint |-> "none", serialNumber |-> 0, aiaUrl |-> FALSE, raw |-> NoPem]

\* parseCertificate(pem).info, for a pem that parses
parseCertificate(pem) ==
    [fingerprint |-> pem.cert,
     serialNumber |-> Certs[pem.cert].serial,
     aiaUrl |-> Certs[pem.cert].aia,
     raw |-> Canon(pem.cert)]

\* child.verify(parent) of the certificate library: "true", "false" or "raise"
VerifyPrimitive(child, parent) ==
    IF Certs[child].alg = "unsupported" THEN "raise"
    ELSE IF Certs[child].signedBy = Certs[parent].key THEN "true"
    ELSE "false"

\* getDnString(child.issuer.attributes) === getDnString(parent.subject.attributes)
LooseCheck(child, parent) == Certs[child].issuer = Certs[parent].subject

verifyParent(childPem, parentPem) ==
    IF ~Parses(childPem) \/ ~Parses(parentPem) THEN FALSE
    ELSE LET prim == VerifyPrimitive(childPem.cert, parentPem.cert)
         IN  IF prim = "true" THEN TRUE
             ELSE LooseCheck(childPem.cert, parentPem.cert)

\* (variant of isSelfSigned: issuer and subject names are compared, no signature)
isSelfSignedByName(pem) ==
    Parses(pem) /\ LooseCheck(pem.cert, pem.cert)

isSelfSigned(pem) == verifyParent(pem, pem)

\* splitCaBundle: the BEGIN/END blocks of the text, none for a text without them
splitCaBundle(content) ==
    IF content.kind = "bundle" THEN content.blocks ELSE <<>>


-----------------------------------------------------------------------------
(* Chain builder: the handlers of App *)

maxDepth == 5

UPLOAD == 0
CHAIN_BUILD == 1
ANALYSIS == 2

\* One entry of the chain (ChainItem); info is kept as its fingerprint
ChainItem(pem, source, signs) ==
    [pem |-> pem,
     fingerprint |-> pem.cert,
     source |-> source,
     isRoot |-> isSelfSigned(pem),
     signsChild |-> signs]

RemoveAt(seq, i) == SubSeq(seq, 1, i - 1) \o SubSeq(seq, i + 1, Len(seq))

HasFingerprint(items, fp) == \E k \in 1..Len(items) : items[k].fingerprint = fp

\* handleAddCa: let pems = splitCaBundle(pemContent), or the whole text
PemsOf(content) ==
    IF Len(splitCaBundle(content)) = 0 THEN <<content.text>> ELSE splitCaBundle(content)

\* handleAddCa, "1. Parse all candidates": the loop over pems.  newItems is
\* the list the loop consults for duplicates within the batch.
RECURSIVE parseCandidates(_, _, _, _)
parseCandidates(pems, tempChain, newItems, leafFp) ==
    IF pems = <<>> THEN <<>>
    ELSE LET p == Head(pems)
             rest == parseCandidates(Tail(pems), tempChain, newItems, leafFp)
         IN  IF ~Parses(p) THEN rest      \* ignore invalid blocks in bundle
             ELSE LET info == parseCertificate(p)
                      existsInChain == HasFingerprint(tempChain, info.fingerprint)
                      existsInNew == HasFingerprint(newItems, info.fingerprint)
                      isLeaf == info.fingerprint = leafFp
                  IN  IF ~existsInChain /\ ~existsInNew /\ ~isLeaf
                      THEN <<info.raw>> \o rest
                      ELSE rest

\* candidates.findIndex(c => verifyParent(currentTailPem, c.pem)), 0 for -1
FindSigner(candidates, tailPem) ==
    LET hits == {i \in 1..Len(candidates) : verifyParent(tailPem, candidates[i])}
    IN  IF hits = {} THEN 0 ELSE CHOOSE i \in hits : \A j \in hits : i <= j

\* (variant of greedyExtend: the tail is not advanced to the match)
RECURSIVE greedyExtendStuck(_, _, _)
greedyExtendStuck(candidates, tailPem, newItems) ==
    LET idx == FindSigner(candidates, tailPem)
    IN  IF candidates = <<>> \/ idx = 0
        THEN [candidates |-> candidates, tail |-> tailPem, newItems |-> newItems]
        ELSE greedyExtendStuck(RemoveAt(candidates, idx), tailPem,
                               Append(newItems, ChainItem(candidates[idx], "uploaded", TRUE)))

\* handleAddCa, "2. Build chain extension greedily"
RECURSIVE greedyExtend(_, _, _)
greedyExtend(candidates, tailPem, newItems) ==
    LET idx == FindSigner(candidates, tailPem)
    IN  IF candidates = <<>> \/ idx = 0
        THEN [candidates |-> candidates, tail |-> tailPem, newItems |-> newItems]
        ELSE greedyExtend(RemoveAt(candidates, idx), candidates[idx],
                          Append(newItems, ChainItem(candidates[idx], "uploaded", TRUE)))

\* (variant of appendRemaining: leftovers are marked as signing without a check)
RECURSIVE appendRemainingUnverified(_, _, _)
appendRemainingUnverified(candidates, tailPem, newItems) ==
    IF candidates = <<>> THEN newItems
    ELSE appendRemainingUnverified(Tail(candidates), Head(candidates),
             Append(newItems, ChainItem(Head(candidates), "uploaded", TRUE)))

\* handleAddCa, "3. Append remaining candidates"
RECURSIVE appendRemaining(_, _, _)
appendRemaining(candidates, tailPem, newItems) ==
    IF candidates = <<>> THEN newItems
    ELSE LET c == Head(candidates)
         IN  appendRemaining(Tail(candidates), c,
                 Append(newItems, ChainItem(c, "uploaded", verifyParent(tailPem, c))))

\* (variant of ZeroCandidatesAlert: every empty outcome is "no new certificates")
ZeroCandidatesAlertOneNotice(pems) == "noNewCerts"

\* handleAddCa, `if (candidates.length === 0)`: the alert shown
ZeroCandidatesAlert(pems) ==
    IF Len(pems) = 1
    THEN IF Parses(pems[1]) THEN "noNewCerts" ELSE "parseError"
    ELSE "noNewCerts"

\* The whole of handleAddCa as a function of the state it reads:
\* the links to append and the alert shown
handleAddCaResult(content, chain, leafPem, leafInfo) ==
    LET pems == PemsOf(content)
        currentTailPem == IF Len(chain) > 0 THEN chain[Len(chain)].pem ELSE leafPem
        candidates == parseCandidates(pems, chain, <<>>, leafInfo.fingerprint)
        grown == greedyExtend(candidates, currentTailPem, <<>>)
    IN  IF currentTailPem = NoPem THEN [newItems |-> <<>>, alert |-> "none"]
        ELSE IF Len(candidates) = 0
        THEN [newItems |-> <<>>, alert |-> ZeroCandidatesAlert(pems)]
        ELSE [newItems |-> appendRemaining(grown.candidates, grown.tail, grown.newItems),
              alert |-> "none"]

\* (variant of handleRemoveCaResult: the link before the indexed one goes)
handleRemoveCaResultOffByOne(chain, index) ==
    IF index \in 1..Len(chain) THEN RemoveAt(chain, index) ELSE chain

\* handleRemoveCa: prev.filter((_, i) => i !== index), indices from 0
handleRemoveCaResult(chain, index) ==
    IF index \in 0..(Len(chain) - 1) THEN RemoveAt(chain, index + 1) ELSE chain

\* (variant of ChainAfterFailure: the links collected so far replace the chain)
ChainAfterFailureReplaced(chain, newChain) == newChain

\* resolveChain, catch block: setChainItems is not called
ChainAfterFailure(chain, newChain) == chain

\* (variant of FetchedLink: the fetched issuer is taken to sign the child)
FetchedLinkAssumed(currentChildPem, parentPem) == ChainItem(parentPem, "fetched", TRUE)

\* resolveChain: the link pushed for a fetched certificate
FetchedLink(currentChildPem, parentPem) ==
    ChainItem(parentPem, "fetched", verifyParent(currentChildPem, parentPem))

\* resolveChain: `while (currentAia && depth < maxDepth)`
LoopContinuesOffByOne(currentAia, depth) == currentAia /\ depth <= maxDepth

LoopContinues(currentAia, depth) == currentAia /\ depth < maxDepth


-----------------------------------------------------------------------------
(* Validation of an uploaded archive: processTarForValidation *)

\* validFrom and validTo of the certificates, on the scale of rNow
Validity ==
    [ leaf  |-> [validFrom |-> 10, validTo |-> 20],
      int   |-> [validFrom |-> 10, validTo |-> 30],
      root  |-> [validFrom |-> 0,  validTo |-> 40],
      cross |-> [validFrom |-> 10, validTo |-> 30],
      fake  |-> [validFrom |-> 10, validTo |-> 30],
      odd   |-> [validFrom |-> 0,  validTo |-> 20] ]

\* The text of an archive entry: a run of certificate blocks, a private key
\* (named by the public key it belongs to), or a text that is neither
BundleText(blocks) == [kind |-> "bundle", blocks |-> blocks, text |-> NoPem, key |-> "none"]
KeyText(k) == [kind |-> "key", blocks |-> <<>>, text |-> NoPem, key |-> k]
OtherText(t) == [kind |-> "text", blocks |-> <<>>, text |-> t, key |-> "none"]

\* What certificateFromPem(normalizePem(content)) decodes: the first block of
\* the text; a private key is left unwrapped and is no certificate
CertTextOf(content) ==
    IF content.kind = "bundle" THEN content.blocks[1]
    ELSE IF content.kind = "text" THEN content.text
    ELSE JunkText

\* name.endsWith(suffix) for one of the suffixes
EndsWithAny(name, suffixes) == name.ext \in suffixes

CertSuffixes == {".crt", ".cer", ".pem"}
KeySuffixes == {".key", ".prv"}
CaSuffixes == {".ca", ".bundle"}

\* (variant of FindFirst: the last matching entry is taken)
FindLast(fs, suffixes) ==
    LET hits == {i \in 1..Len(fs) : EndsWithAny(fs[i].name, suffixes)}
    IN  IF hits = {} THEN 0 ELSE CHOOSE i \in hits : \A j \in hits : i >= j

\* files.find(f => f.name.endsWith(..) || ..): its index, 0 for undefined
FindFirst(fs, suffixes) ==
    LET hits == {i \in 1..Len(fs) : EndsWithAny(fs[i].name, suffixes)}
    IN  IF hits = {} THEN 0 ELSE CHOOSE i \in hits : \A j \in hits : i <= j

checkKeyPair(certContent, keyContent) ==
    /\ Parses(CertTextOf(certContent))
    /\ keyContent.kind = "key"
    /\ Certs[CertTextOf(certContent).cert].key = keyContent.key

Tri(b) == IF b THEN "true" ELSE "false"

\* The classification of the certificate against the clock
ValidityStatus(certContent, clock) ==
    IF ~Parses(CertTextOf(certContent)) THEN "unknown"
    ELSE LET v == Validity[CertTextOf(certContent).cert]
         IN  IF clock > v.validTo THEN "expired"
             ELSE IF clock < v.validFrom THEN "not_yet_valid"
             ELSE "valid"

\* The chain check of the CA bundle against the certificate entry
ChainComplete(certContent, caContent) ==
    LET chainPems == splitCaBundle(caContent)
        linked == verifyParent(CertTextOf(certContent), chainPems[1])
        broken == {i \in 1..(Len(chainPems) - 1) : ~verifyParent(chainPems[i], chainPems[i + 1])}
    IN  IF Len(chainPems) = 0 THEN "null"
        ELSE IF ~linked THEN "false"
        ELSE Tri(broken = {})

processTarForValidation(fs, clock) ==
    LET certFile == FindFirst(fs, CertSuffixes)
        keyFile == FindFirst(fs, KeySuffixes)
        caFile == FindFirst(fs, CaSuffixes)
    IN  [hasCert |-> certFile # 0,
         hasKey |-> keyFile # 0,
         hasCa |-> caFile # 0,
         keyPairMatch |-> IF certFile # 0 /\ keyFile # 0
                          THEN Tri(checkKeyPair(fs[certFile].content, fs[keyFile].content))
                          ELSE "null",
         chainComplete |-> IF caFile # 0 /\ certFile # 0
                           THEN ChainComplete(fs[certFile].content, fs[caFile].content)
                           ELSE "null",
         validityStatus |-> IF certFile # 0
                            THEN ValidityStatus(fs[certFile].content, clock)
                            ELSE "unknown"]

-----------------------------------------------------------------------------
(* Each specification below exercises one part of the program; the         *)
(* variables of the other parts rest at these values.                       *)

NoResult == [prim |-> "none", value |-> FALSE]
NoOp == [op |-> "none", pems |-> <<>>, before |-> <<>>, added |-> <<>>,
         alert |-> "none", fetches |-> 0, index |-> -1]

IdleTar ==
    /\ files = <<>>
    /\ now = 0
    /\ archive = <<>>
    /\ tpc = "idle"
    /\ cutAt = -1
    /\ padAt = -1
    /\ uOffset = 0
    /\ uFiles = <<>>

IdleVerify ==
    /\ vChild = NoPem
    /\ vParent = NoPem
    /\ vResult = NoResult

IdleApp ==
    /\ step = UPLOAD
    /\ certPem = NoPem
    /\ certInfo = NoInfo
    /\ chainItems = <<>>
    /\ runs = <<>>
    /\ last = NoOp

IdleOctal ==
    /\ oBuf = <<>>
    /\ oOffset = 0
    /\ oLen = 0
    /\ oVal = 0
    /\ oBefore = <<>>
    /\ oRead = [nan |-> TRUE, val |-> 0]
    /\ opc = "idle"

IdleFetch ==
    /\ fUrl = "none"
    /\ fpc = "idle"
    /\ fLog = <<>>
    /\ fResult = NoPem

\* validationResult before any validation (null)
NoReport ==
    [hasCert |-> FALSE, hasKey |-> FALSE, hasCa |-> FALSE, keyPairMatch |-> "null",
     chainComplete |-> "null", validityStatus |-> "none"]

IdleValidate ==
    /\ rFiles = <<>>
    /\ rNow = 0
    /\ report = NoReport

IdleRequest ==
    /\ status = "idle"
    /\ isApiHealthy = FALSE
    /\ subdomainOk = FALSE
    /\ logs = 0
    /\ ws = "none"
    /\ posts = 0
    /\ submitted = 0

IdleExt == IdleOctal /\ IdleFetch /\ IdleValidate /\ IdleRequest

-----------------------------------------------------------------------------
(* The codec as a state machine: createTarball on the chosen entries, then  *)
(* untar on its result, one iteration of the scanning loop per step.        *)

MaxFiles == 2

\* Entries with name lengths around the 100-byte name field and content
\* lengths around the block size; one content holds a two-byte character
NameOf(n) == Rep(97, n)
TextOf(n) == Rep(65, n)
Accented == <<233>> \o TextOf(BlockSize - 2)
EntryPool ==
    { [name |-> NameOf(1), content |-> TextOf(0)],
      [name |-> NameOf(NameFieldLen - 1), content |-> TextOf(1)],
      [name |-> NameOf(NameFieldLen), content |-> TextOf(BlockSize - 1)],
      [name |-> NameOf(NameFieldLen + 1), content |-> TextOf(BlockSize)],
      [name |-> NameOf(1), content |-> TextOf(BlockSize + 1)],
      [name |-> NameOf(NameFieldLen), content |-> Accented],
      [name |-> <<>>, content |-> TextOf(1)] }
\* Two readings of Date.now(), a second apart
Clocks == {1762000000, 1762000001}

MaxCutFiles == 1
CutPoints(a) ==
    {Len(a) - 2 * BlockSize, Len(a) - BlockSize, Len(a) - 1,
     NameFieldLen, BlockSize, BlockSize + 1}

\* Offsets of block boundaries where the buffer may hold one more zero block:
\* before the first header and after the last entry
PadPoints(a) == {0, Len(a) - 2 * BlockSize}

FileLists == UNION {[1..n -> EntryPool] : n \in 0..MaxFiles}

TarInit ==
    /\ files \in FileLists
    /\ now \in Clocks
    /\ archive = <<>>
    /\ tpc = "input"
    /\ cutAt = -1
    /\ padAt = -1
    /\ uOffset = 0
    /\ uFiles = <<>>
    /\ IdleVerify
    /\ IdleApp
    /\ IdleExt

\* createTarball(files)
Pack ==
    /\ tpc = "input"
    /\ archive' = createTarball(files, now)
    /\ tpc' = "packed"
    /\ UNCHANGED <<files, now, cutAt, padAt, uOffset, uFiles, verifyVars, appVars, extVars>>

\* The buffer given to untar is a file of the user's: here an archive of at
\* most MaxCutFiles entries that lost its tail
Truncate ==
    /\ tpc = "packed"
    /\ cutAt = -1
    /\ padAt = -1
    /\ Len(files) <= MaxCutFiles
    /\ \E c \in CutPoints(archive) :
          /\ archive' = Slice(archive, 0, c)
          /\ cutAt' = c
    /\ UNCHANGED <<files, now, tpc, padAt, uOffset, uFiles, verifyVars, appVars, extVars>>

\* ... or an archive of at most MaxCutFiles entries with a zero block put in
\* at a block boundary
PadInsert ==
    /\ tpc = "packed"
    /\ cutAt = -1
    /\ padAt = -1
    /\ Len(files) <= MaxCutFiles
    /\ \E p \in PadPoints(archive) :
          /\ archive' = SubSeq(archive, 1, p) \o Zeros(BlockSize)
                            \o SubSeq(archive, p + 1, Len(archive))
          /\ padAt' = p
    /\ UNCHANGED <<files, now, tpc, cutAt, uOffset, uFiles, verifyVars, appVars, extVars>>

\* untar(buffer): entry, up to the loop
UntarStart ==
    /\ tpc = "packed"
    /\ uOffset' = 0
    /\ uFiles' = <<>>
    /\ tpc' = "scan"
    /\ UNCHANGED <<files, now, archive, cutAt, padAt, verifyVars, appVars, extVars>>

\* One iteration of `while (offset + 512 <= uint8.length)`
UntarIter ==
    /\ tpc = "scan"
    /\ uOffset + BlockSize <= Len(archive)
    /\ IF isNullBlock(archive, uOffset)
       THEN IF uOffset + 2 * BlockSize <= Len(archive) /\ archive[uOffset + BlockSize + 1] = 0
            THEN \* break
                 /\ tpc' = "done"
                 /\ UNCHANGED <<uOffset, uFiles>>
            ELSE \* skip this padding block
                 /\ uOffset' = uOffset + BlockSize
                 /\ UNCHANGED <<tpc, uFiles>>
       ELSE LET f == ExtractedFile(archive, uOffset)
                type == archive[uOffset + 156 + 1]
                contentStart == uOffset + BlockSize
            IN  /\ uFiles' = IF IsFileType(type) THEN Append(uFiles, f) ELSE uFiles
                /\ IF f.size.nan
                   THEN \* offset becomes NaN: the loop condition is false from now on
                        /\ tpc' = "done"
                        /\ UNCHANGED uOffset
                   ELSE /\ uOffset' = contentStart + CeilToBlock(f.size.val)
                        /\ UNCHANGED tpc
    /\ UNCHANGED <<files, now, archive, cutAt, padAt, verifyVars, appVars, extVars>>

\* The loop condition fails: return files
UntarExit ==
    /\ tpc = "scan"
    /\ ~(uOffset + BlockSize <= Len(archive))
    /\ tpc' = "done"
    /\ UNCHANGED <<files, now, archive, cutAt, padAt, uOffset, uFiles, verifyVars, appVars, extVars>>

TarNext == Pack \/ Truncate \/ PadInsert \/ UntarStart \/ UntarIter \/ UntarExit

SpecTar == TarInit /\ [][TarNext]_vars

-----------------------------------------------------------------------------
(* untar on buffers that createTarball did not produce: the size field of  *)
(* the first header holds another text.                                    *)

MaxPushes == 4     \* the scan is followed until it has returned this many entries

\* Texts of a size field: "-1000", "-1001", "-5", "zzz", "", " 12", "5"
SizeTexts ==
    { <<45, 49, 48, 48, 48>>, <<45, 49, 48, 48, 49>>, <<45, 53>>,
      <<122, 122, 122>>, <<>>, <<32, 49, 50>>, <<53>> }

\* The buffer with the twelve bytes of the first size field replaced by
\* the text and NULs
WithSizeField(a, text) ==
    SubSeq(a, 1, 124) \o text \o Zeros(12 - Len(text)) \o SubSeq(a, 137, Len(a))

ScanInit ==
    /\ files \in {fs \in FileLists : Len(fs) = 1}
    /\ now \in {CHOOSE t \in Clocks : TRUE}
    /\ archive \in {WithSizeField(createTarball(files, now), text) : text \in SizeTexts}
    /\ tpc = "packed"
    /\ cutAt = -1
    /\ padAt = -1
    /\ uOffset = 0
    /\ uFiles = <<>>
    /\ IdleVerify
    /\ IdleApp
    /\ IdleExt

ScanIter ==
    /\ Len(uFiles) < MaxPushes
    /\ UntarIter

ScanNext == UntarStart \/ ScanIter \/ UntarExit

SpecScan == ScanInit /\ [][ScanNext]_vars

-----------------------------------------------------------------------------
(* verifyParent and isSelfSigned as functions under test *)

VerifyPems ==
    {Canon(c) : c \in CertIds} \cup {Pem("leaf", "spaced"), Pem("int", "bare"), JunkBlock, JunkText}

VerifyInit ==
    /\ vChild \in VerifyPems
    /\ vParent \in VerifyPems
    /\ vResult = NoResult
    /\ IdleTar
    /\ IdleApp
    /\ IdleExt

\* verifyParent(vChild, vParent); prim records what the primitive did
VerifyCall ==
    /\ vResult = NoResult
    /\ vResult' = [prim |-> IF Parses(vChild) /\ Parses(vParent)
                            THEN VerifyPrimitive(vChild.cert, vParent.cert)
                            ELSE "unparsed",
                   value |-> verifyParent(vChild, vParent)]
    /\ UNCHANGED <<vChild, vParent, tarVars, appVars, extVars>>

\* isSelfSigned(vChild)
SelfSignedCall ==
    /\ vResult = NoResult
    /\ vResult' = [prim |-> "self", value |-> isSelfSigned(vChild)]
    /\ UNCHANGED <<vChild, vParent, tarVars, appVars, extVars>>

VerifyNext == VerifyCall \/ SelfSignedCall

SpecVerify == VerifyInit /\ [][VerifyNext]_vars

-----------------------------------------------------------------------------
(* The chain builder as a state machine                                     *)
(*                                                                         *)
(* The state is the part of App's state the chain handlers read and write. *)
(* A call of resolveChain suspended at `await fetchCertificate` is an      *)
(* element of runs; nothing cancels it, so it goes on while the user acts. *)
(* The key upload, the analysis service (which only moves step away from   *)
(* UPLOAD once it answers) and the packaging steps are outside this part.  *)

MaxBatch == 2      \* blocks in one uploaded bundle
MaxChain == 2      \* manual additions stop at this chain length
MaxRuns == 1       \* calls of resolveChain in flight at once

\* What the user uploads as the certificate
LeafPems == {Canon("leaf"), Pem("leaf", "spaced"), Canon("int"), Canon("root"), JunkText}

\* What the user uploads as issuer certificates: a bundle of BEGIN/END blocks,
\* or a text without them
BatchBlocks == {Canon("int"), Canon("root"), Canon("cross"), Canon("leaf"), JunkBlock}
Bundles == UNION {[1..n -> BatchBlocks] : n \in 1..MaxBatch}
Contents ==
    {[kind |-> "bundle", blocks |-> b, text |-> NoPem] : b \in Bundles}
    \cup {[kind |-> "text", blocks |-> <<>>, text |-> t] : t \in {Pem("int", "bare"), JunkText}}

\* What fetchCertificate can return: certificateToPem of a fetched certificate
FetchPool == {Canon("leaf"), Canon("int"), Canon("root")}

Init ==
    /\ IdleApp
    /\ IdleTar
    /\ IdleVerify
    /\ IdleExt

Note(op) == [NoOp EXCEPT !.op = op]

\* setCertPem(c) from the certificate upload, which offers a file or text
\* input only while it holds no content, and the effect on [certPem, keyPem]
\* that follows it
SetCert(p) ==
    /\ certPem = NoPem
    /\ certPem' = p
    /\ IF Parses(p) /\ parseCertificate(p).serialNumber # certInfo.serialNumber
       THEN LET info == parseCertificate(p)
            IN  /\ certInfo' = info
                /\ IF info.aiaUrl
                   THEN \* resolveChain(info, certPem) up to its first await
                        /\ Len(runs) < MaxRuns
                        /\ runs' = Append(runs, [leaf |-> p, child |-> p, depth |-> 0,
                                                 newChain |-> <<>>, fetches |-> 1])
                        /\ UNCHANGED step
                   ELSE /\ step' = CHAIN_BUILD
                        /\ UNCHANGED runs
       ELSE UNCHANGED <<certInfo, step, runs>>
    /\ last' = Note("setCert")
    /\ UNCHANGED <<chainItems, tarVars, verifyVars, extVars>>

\* onClear of the certificate upload
ClearCert ==
    /\ certPem # NoPem
    /\ certPem' = NoPem
    /\ certInfo' = NoInfo
    /\ last' = Note("clearCert")
    /\ UNCHANGED <<step, chainItems, runs, tarVars, verifyVars, extVars>>

\* resetBuilder
ResetBuilder ==
    /\ step' = UPLOAD
    /\ certPem' = NoPem
    /\ certInfo' = NoInfo
    /\ chainItems' = <<>>
    /\ last' = Note("reset")
    /\ UNCHANGED <<runs, tarVars, verifyVars, extVars>>

\* The return of `await fetchCertificate(currentAia)` in run i of resolveChain,
\* and the loop up to the next await or to the end
FetchReturns(i, parentPem) ==
    LET run == runs[i]
        item == FetchedLink(run.child, parentPem)
        pushed == Append(run.newChain, item)
        cycle == parentPem = run.child
        newChain == IF cycle THEN run.newChain ELSE pushed
        goesOn == /\ ~cycle
                  /\ ~item.isRoot
                  /\ LoopContinues(parseCertificate(parentPem).aiaUrl, run.depth + 1)
    IN  IF goesOn
        THEN /\ runs' = [runs EXCEPT ![i] = [leaf |-> run.leaf, child |-> parentPem,
                                             depth |-> run.depth + 1,
                                             newChain |-> pushed, fetches |-> run.fetches + 1]]
             /\ last' = Note("fetched")
             /\ UNCHANGED <<chainItems, step>>
        ELSE /\ chainItems' = newChain
             /\ step' = ANALYSIS
             /\ runs' = RemoveAt(runs, i)
             /\ last' = [NoOp EXCEPT !.op = "resolved", !.pems = <<run.leaf>>,
                                     !.added = newChain, !.fetches = run.fetches]

FetchOk ==
    /\ \E i \in 1..Len(runs) : \E parentPem \in FetchPool : FetchReturns(i, parentPem)
    /\ UNCHANGED <<certPem, certInfo, tarVars, verifyVars, extVars>>

\* fetchCertificate throws in run i: the catch and finally of resolveChain
FetchFails ==
    /\ \E i \in 1..Len(runs) :
          /\ chainItems' = ChainAfterFailure(chainItems, runs[i].newChain)
          /\ step' = CHAIN_BUILD
          /\ runs' = RemoveAt(runs, i)
          /\ last' = [NoOp EXCEPT !.op = "resolveFailed", !.before = chainItems,
                                  !.added = runs[i].newChain, !.fetches = runs[i].fetches]
    /\ UNCHANGED <<certPem, certInfo, tarVars, verifyVars, extVars>>

\* ChainBuilder is shown, with its upload zone
CanAddCa ==
    /\ step = CHAIN_BUILD
    /\ certInfo # NoInfo
    /\ ~(Len(chainItems) > 0 /\ chainItems[Len(chainItems)].isRoot)

\* handleAddCa(pemContent)
HandleAddCa(content) ==
    /\ CanAddCa
    /\ Len(chainItems) + Len(PemsOf(content)) <= MaxChain
    /\ LET r == handleAddCaResult(content, chainItems, certPem, certInfo)
       IN  /\ chainItems' = chainItems \o r.newItems
           /\ last' = [NoOp EXCEPT !.op = "add", !.pems = PemsOf(content),
                                   !.before = chainItems, !.added = r.newItems,
                                   !.alert = r.alert]
    /\ UNCHANGED <<step, certPem, certInfo, runs, tarVars, verifyVars, extVars>>

\* handleRemoveCa(index): the button of link index calls it; the handler
\* takes any number, so the indices next to the chain are drawn as well
HandleRemoveCa(index) ==
    /\ step = CHAIN_BUILD
    /\ certInfo # NoInfo
    /\ index \in -1..Len(chainItems)
    /\ chainItems' = handleRemoveCaResult(chainItems, index)
    /\ last' = [NoOp EXCEPT !.op = "remove", !.index = index]
    /\ UNCHANGED <<step, certPem, certInfo, runs, tarVars, verifyVars, extVars>>

\* "Next: review" in the chain builder, "download chain" in the review
GoReview ==
    /\ step = CHAIN_BUILD
    /\ certInfo # NoInfo
    /\ Len(chainItems) > 0
    /\ step' = ANALYSIS
    /\ last' = Note("goReview")
    /\ UNCHANGED <<certPem, certInfo, chainItems, runs, tarVars, verifyVars, extVars>>

GoChainBuild ==
    /\ step = ANALYSIS
    /\ certInfo # NoInfo
    /\ step' = CHAIN_BUILD
    /\ last' = Note("goChainBuild")
    /\ UNCHANGED <<certPem, certInfo, chainItems, runs, tarVars, verifyVars, extVars>>

Next ==
    \/ \E p \in LeafPems : SetCert(p)
    \/ ClearCert
    \/ ResetBuilder
    \/ FetchOk
    \/ FetchFails
    \/ \E content \in Contents : HandleAddCa(content)
    \/ \E index \in -1..(MaxChain + maxDepth) : HandleRemoveCa(index)
    \/ GoReview
    \/ GoChainBuild

Spec == Init /\ [][Next]_vars


-----------------------------------------------------------------------------
(* Packaging: the files preparePackage hands to createTarball.  Their      *)
(* names are short and their texts are PEM, so untar gives them back as    *)
(* they went in.                                                           *)

EntryName(base, ext) == [base |-> base, ext |-> ext]

\* preparePackage: the certificate, the private key and the chain's
\* certificates joined into the CA bundle
PackageFiles(leafPem, chain) ==
    << [name |-> EntryName("cert", ".crt"), content |-> OtherText(leafPem)],
       [name |-> EntryName("cert", ".prv"),
        content |-> KeyText(IF Parses(leafPem) THEN Certs[leafPem.cert].key ELSE "none")],
       [name |-> EntryName("cert", ".ca"),
        content |-> BundleText([k \in 1..Len(chain) |-> chain[k].pem])] >>

\* preparePackage returns a package (the key and the analysis are there)
CanPackage == step = ANALYSIS /\ certPem # NoPem /\ certInfo # NoInfo

-----------------------------------------------------------------------------
(* Validation as a state machine: the entries are what untar returned for  *)
(* the file the user chose.                                                *)

MaxEntries == 3

ArchiveEntries ==
    { [name |-> EntryName("site", ".crt"), content |-> BundleText(<<Canon("leaf")>>)],
      [name |-> EntryName("ca1", ".crt"), content |-> BundleText(<<Canon("int")>>)],
      [name |-> EntryName("notes", ".pem"), content |-> OtherText(JunkText)],
      [name |-> EntryName("site-key", ".pem"), content |-> KeyText("kLeaf")],
      [name |-> EntryName("site", ".prv"), content |-> KeyText("kLeaf")],
      [name |-> EntryName("other", ".key"), content |-> KeyText("kCA1")],
      [name |-> EntryName("site", ".ca"), content |-> BundleText(<<Canon("int"), Canon("root")>>)],
      [name |-> EntryName("root", ".ca"), content |-> BundleText(<<Canon("root")>>)],
      [name |-> EntryName("cross", ".bundle"), content |-> BundleText(<<Canon("int"), Canon("cross")>>)],
      [name |-> EntryName("empty", ".ca"), content |-> OtherText(JunkText)],
      [name |-> EntryName("readme", ".txt"), content |-> OtherText(JunkText)] }

\* Clock readings before, within and after the validity intervals
Times == {5, 15, 20, 25}

ValidateInit ==
    /\ rFiles \in UNION {[1..n -> ArchiveEntries] : n \in 0..MaxEntries}
    /\ rNow \in Times
    /\ report = NoReport
    /\ IdleTar
    /\ IdleVerify
    /\ IdleApp
    /\ IdleOctal
    /\ IdleFetch
    /\ IdleRequest

\* processTarForValidation(buffer), after untar(buffer)
Validate ==
    /\ report = NoReport
    /\ report' = processTarForValidation(rFiles, rNow)
    /\ UNCHANGED <<rFiles, rNow, tarVars, verifyVars, appVars, octVars, fetchVars, reqVars>>

ValidateNext == Validate

SpecValidate == ValidateInit /\ [][ValidateNext]_vars

-----------------------------------------------------------------------------
(* fetchCertificate as a state machine: one step per awaited request.      *)
(* The network is the collaborator: a request is rejected, or answered     *)
(* with a status and a body.                                               *)

Urls == {"http://ca.example/int.cer", "http://ca.example/root.cer", "http://down.example/x.cer"}

\* `${proxyUrl}${encodeURIComponent(url)}`
ProxyUrl(url) == [via |-> "allorigins", url |-> url]
DirectUrl(url) == [via |-> "none", url |-> url]

Bodies ==
    { [kind |-> "der", cert |-> "int"], [kind |-> "der", cert |-> "root"],
      [kind |-> "pem", cert |-> "int"], [kind |-> "html", cert |-> "none"] }

Rejected == [kind |-> "rejected", ok |-> FALSE, body |-> [kind |-> "none", cert |-> "none"]]

Responses == {Rejected} \cup {[kind |-> "response", ok |-> o, body |-> b] : o \in BOOLEAN, b \in Bodies}

\* asn1.fromDer and certificateFromAsn1 throw on anything that is not DER
IsDerCertificate(body) == body.kind = "der"

\* certificateToPem(certificateFromAsn1(fromDer(bytes)))
DerToPem(body) == Canon(body.cert)

\* The direct attempt returns the certificate when the request is answered,
\* the status is ok and the body decodes
DirectDelivers(resp) == resp.kind = "response" /\ resp.ok /\ IsDerCertificate(resp.body)

\* The proxy attempt does not look at the status
ProxyDelivers(resp) == resp.kind = "response" /\ IsDerCertificate(resp.body)

\* (variant of AfterDirect: an error of the direct attempt is reported at once)
AfterDirectGiveUp(resp) == IF DirectDelivers(resp) THEN "returned" ELSE "failed"

\* Where the function goes after the direct attempt: the catch block retries
AfterDirect(resp) == IF DirectDelivers(resp) THEN "returned" ELSE "proxy"

AfterProxy(resp) == IF ProxyDelivers(resp) THEN "returned" ELSE "failed"

FetchInit ==
    /\ fUrl \in Urls
    /\ fpc = "direct"
    /\ fLog = <<>>
    /\ fResult = NoPem
    /\ IdleTar
    /\ IdleVerify
    /\ IdleApp
    /\ IdleOctal
    /\ IdleValidate
    /\ IdleRequest

\* await fetch(url) and the decoding of its answer
DirectAttempt(resp) ==
    /\ fpc = "direct"
    /\ fLog' = Append(fLog, [target |-> DirectUrl(fUrl), resp |-> resp])
    /\ fpc' = AfterDirect(resp)
    /\ fResult' = IF fpc' = "returned" THEN DerToPem(resp.body) ELSE NoPem
    /\ UNCHANGED <<fUrl, tarVars, verifyVars, appVars, octVars, valVars, reqVars>>

\* await fetch(proxyUrl + url) in the catch block
ProxyAttempt(resp) ==
    /\ fpc = "proxy"
    /\ fLog' = Append(fLog, [target |-> ProxyUrl(fUrl), resp |-> resp])
    /\ fpc' = AfterProxy(resp)
    /\ fResult' = IF fpc' = "returned" THEN DerToPem(resp.body) ELSE NoPem
    /\ UNCHANGED <<fUrl, tarVars, verifyVars, appVars, octVars, valVars, reqVars>>

FetchNext ==
    \/ \E resp \in Responses : DirectAttempt(resp)
    \/ \E resp \in Responses : ProxyAttempt(resp)

SpecFetch == FetchInit /\ [][FetchNext]_vars

-----------------------------------------------------------------------------
(* The numeric header fields as a state machine: one call of writeOctal on *)
(* a header block, then readOctal on the field.                            *)

RECURSIVE Pow8(_)
Pow8(k) == IF k = 0 THEN 1 ELSE 8 * Pow8(k - 1)

\* The widths createTarHeader uses, and the offsets of the fields of each
FieldWidths == {8, 12}
FieldOffsets(w) == IF w = 8 THEN {100, 108, 116} ELSE {124, 136}

\* Values below 8^(w-1): the ends of every digit count, the values the
\* header holds, and the largest value.  For width 12 the values stop at
\* 2^31 - 1, the largest integer of the checker; 8^11 - 1 is beyond it.
OctalValues(w) ==
    IF w = 8
    THEN {0, 1, FileMode, OwnerId, Pow8(7) - 1}
         \cup {Pow8(k) - 1 : k \in 1..6} \cup {Pow8(k) : k \in 1..6}
    ELSE {0, 1, FileMode, OwnerId, 1762000000, 2147483647}
         \cup {Pow8(k) - 1 : k \in 1..10} \cup {Pow8(k) : k \in 1..10}

\* What the block holds before the call
Fills == {0, 255}

OctalInit ==
    /\ oLen \in FieldWidths
    /\ oOffset \in FieldOffsets(oLen)
    /\ oVal \in OctalValues(oLen)
    /\ oBuf \in {Rep(f, BlockSize) : f \in Fills}
    /\ oBefore = oBuf
    /\ oRead = [nan |-> TRUE, val |-> 0]
    /\ opc = "input"
    /\ IdleTar
    /\ IdleVerify
    /\ IdleApp
    /\ IdleFetch
    /\ IdleValidate
    /\ IdleRequest

\* writeOctal(block, offset, len, val)
WriteOctal ==
    /\ opc = "input"
    /\ oBuf' = writeOctal(oBuf, oOffset, oLen, oVal)
    /\ opc' = "written"
    /\ UNCHANGED <<oOffset, oLen, oVal, oBefore, oRead, tarVars, verifyVars, appVars, fetchVars, valVars, reqVars>>

\* readOctal(offset, len) on the written block
ReadOctal ==
    /\ opc = "written"
    /\ oRead' = readOctal(oBuf, oOffset, oLen)
    /\ opc' = "read"
    /\ UNCHANGED <<oBuf, oOffset, oLen, oVal, oBefore, tarVars, verifyVars, appVars, fetchVars, valVars, reqVars>>

OctalNext == WriteOctal \/ ReadOctal

SpecOctal == OctalInit /\ [][OctalNext]_vars

-----------------------------------------------------------------------------
(* The certificate request form as a state machine.  The server is the     *)
(* collaborator: it answers the health check, answers each POST, and sends *)
(* status messages over the WebSocket, in any order.  The socket followed  *)
(* is the one wsRef holds.                                                 *)

MaxRequests == 2   \* requests submitted in one behaviour
MaxLogs == 3       \* log lines are counted up to this number

\* addLog
AddLog(n) == Min(n + 1, MaxLogs)

RequestInit ==
    /\ IdleRequest
    /\ IdleTar
    /\ IdleVerify
    /\ IdleApp
    /\ IdleOctal
    /\ IdleFetch
    /\ IdleValidate

\* checkHealth, every five seconds
HealthCheck(ok) ==
    /\ isApiHealthy' = ok
    /\ UNCHANGED <<status, subdomainOk, logs, ws, posts, submitted, restVars>>

\* handleSubdomainChange
SubdomainChange(ok) ==
    /\ subdomainOk' = ok
    /\ UNCHANGED <<status, isApiHealthy, logs, ws, posts, submitted, restVars>>

\* connectWs: a new socket unless the current one is open
connectWs(socket) == IF socket = "open" THEN "open" ELSE "connecting"

\* handleRequest up to its await; the submit button is disabled while the
\* status is requesting or processing or the API is unreachable
HandleRequest ==
    /\ status \notin {"requesting", "processing"}
    /\ isApiHealthy
    /\ IF ~subdomainOk
       THEN /\ logs' = AddLog(logs)
            /\ UNCHANGED <<status, ws, posts, submitted>>
       ELSE /\ submitted < MaxRequests
            /\ status' = "requesting"
            /\ logs' = AddLog(0)
            /\ ws' = connectWs(ws)
            /\ posts' = posts + 1
            /\ submitted' = submitted + 1
    /\ UNCHANGED <<isApiHealthy, subdomainOk, restVars>>

\* handleRequest after its await: the response of a POST
PostAnswered(ok) ==
    /\ posts > 0
    /\ posts' = posts - 1
    /\ logs' = AddLog(logs)
    /\ status' = IF ok THEN "processing" ELSE "failed"
    /\ UNCHANGED <<isApiHealthy, subdomainOk, ws, submitted, restVars>>

\* ws.onopen
WsOpen ==
    /\ ws = "connecting"
    /\ ws' = "open"
    /\ logs' = AddLog(logs)
    /\ UNCHANGED <<status, isApiHealthy, subdomainOk, posts, submitted, restVars>>

\* The status a message sets: data.status of 'complete' or 'failed'; any
\* other message, JSON or not, leaves the status
StatusAfterMessage(current, dataStatus) ==
    IF dataStatus = "complete" THEN "completed"
    ELSE IF dataStatus = "failed" THEN "failed"
    ELSE current

\* ws.onmessage
WsMessage(dataStatus) ==
    /\ ws = "open"
    /\ status' = StatusAfterMessage(status, dataStatus)
    /\ logs' = AddLog(logs)
    /\ UNCHANGED <<isApiHealthy, subdomainOk, ws, posts, submitted, restVars>>

\* ws.onerror and ws.onclose
WsError ==
    /\ ws \in {"connecting", "open"}
    /\ ws' = "closed"
    /\ logs' = AddLog(logs)
    /\ UNCHANGED <<status, isApiHealthy, subdomainOk, posts, submitted, restVars>>

RequestNext ==
    \/ \E ok \in BOOLEAN : HealthCheck(ok)
    \/ \E ok \in BOOLEAN : SubdomainChange(ok)
    \/ HandleRequest
    \/ \E ok \in BOOLEAN : PostAnswered(ok)
    \/ WsOpen
    \/ \E dataStatus \in {"complete", "failed", "progress", "none"} : WsMessage(dataStatus)
    \/ WsError

SpecRequest == RequestInit /\ [][RequestNext]_vars

-----------------------------------------------------------------------------
(* Claims about the codec *)

\* C1: round-trip law -- untar(createTarball(entries)) has the length of
\* entries and its i-th element has the name and content of the i-th entry.
C1_RoundTrip ==
    tpc = "done" /\ cutAt = -1 /\ padAt = -1 =>
        /\ Len(uFiles) = Len(files)
        /\ \A i \in 1..Len(files) :
              /\ uFiles[i].name = files[i].name
              /\ uFiles[i].content = files[i].content

\* C10: archive layout -- the output length is the sum over the entries of
\* 512 + 512*ceil(n_i/512), plus 1024; every header lies at a multiple of 512
\* and is followed by its content; the bytes from the end of each content to
\* the next block boundary are zero; the last 1024 bytes are zero.
ByteLen(i) == Len(TextEncode(files[i].content))
EntrySpan(n) == 512 + 512 * ((n + 511) \div 512)
C10_Layout ==
    tpc = "packed" /\ cutAt = -1 /\ padAt = -1 =>
        LET n == [i \in 1..Len(files) |-> ByteLen(i)]
            span == [i \in 1..Len(files) |-> EntrySpan(n[i])]
            at == [i \in 1..Len(files) |-> SumRange(span, 1, i - 1)]
            total == Len(archive)
        IN  /\ total = SumRange(span, 1, Len(files)) + 1024
            /\ \A i \in 1..Len(files) :
                  /\ at[i] % 512 = 0
                  /\ SubSeq(archive, at[i] + 1, at[i] + 512)
                        = createTarHeader(files[i].name, n[i], now)
                  /\ SubSeq(archive, at[i] + 513, at[i] + 512 + n[i])
                        = TextEncode(files[i].content)
                  /\ \A k \in (at[i] + 512 + n[i])..(at[i] + span[i] - 1) :
                        archive[k + 1] = 0
            /\ \A k \in (total - 1024)..(total - 1) : archive[k + 1] = 0

C10_Witness ==
    /\ tpc = "packed"
    /\ cutAt = -1
    /\ padAt = -1
    /\ Len(files) = 2
    /\ ByteLen(1) = 512
    /\ ByteLen(2) % 512 # 0
    /\ ByteLen(2) > 512

\* Where entry i of files starts in the archive as packed
EntryStart(i) ==
    SumRange([k \in 1..Len(files) |-> EntrySpan(ByteLen(k))], 1, i - 1)

\* C11 (as stated): the scan stops at an all-zero block only if the block
\* after it is entirely zero too (or the buffer ends there); an all-zero
\* block followed by a block that is not entirely zero is skipped and the
\* entries after it are returned.
C11_Terminator ==
    tpc = "done" =>
        /\ (uOffset + BlockSize <= Len(archive) /\ isNullBlock(archive, uOffset))
              => /\ uOffset + 2 * BlockSize <= Len(archive)
                 /\ isNullBlock(archive, uOffset + BlockSize)
        /\ (padAt # -1 /\ ~isNullBlock(archive, padAt + BlockSize))
              => Len(uFiles) = Len(files)

\* C12 (as stated): untar of a packed archive cut at any offset returns a
\* prefix of the entry list, with the same names and byte-exact contents,
\* that holds every entry whose header and content lie before the cut.
C12_TruncationPrefix ==
    (tpc = "done" /\ cutAt # -1) =>
        /\ Len(uFiles) <= Len(files)
        /\ \A i \in 1..Len(uFiles) :
              /\ uFiles[i].name = files[i].name
              /\ uFiles[i].content = files[i].content
        /\ \A i \in 1..Len(files) :
              EntryStart(i) + BlockSize + ByteLen(i) <= cutAt => i <= Len(uFiles)

\* C13 (as stated): createTarball of the same entries at another time
\* returns the same bytes.
C13_Deterministic ==
    (tpc = "packed" /\ cutAt = -1 /\ padAt = -1) =>
        \A t \in Clocks : createTarball(files, t) = archive

-----------------------------------------------------------------------------
(* Claims about link verification *)

\* C7 (as stated): the loose DN check is consulted only when the primitive
\* raises: when the primitive returns false, verifyParent returns false
\* whatever the names say; when it raises, the result is the DN equality.
C7_LooseOnlyOnRaise ==
    /\ vResult.prim = "false" => vResult.value = FALSE
    /\ vResult.prim = "raise" => vResult.value = LooseCheck(vChild.cert, vParent.cert)

-----------------------------------------------------------------------------
(* Claims about the chain builder *)

\* The state right after handleAddCa appended last.added to last.before
AfterAdd == last.op = "add"

DistinctFingerprints(items) ==
    \A i, j \in 1..Len(items) : i # j => items[i].fingerprint # items[j].fingerprint

\* The certificate held before link k of last.added: the leaf for the first
\* link of the chain, the link before it otherwise
PredecessorPem(k) ==
    IF Len(last.before) + k = 1 THEN certPem
    ELSE chainItems[Len(last.before) + k - 1].pem

\* The blocks of the batch are valid certificates, pairwise distinct, none of
\* them the leaf or a certificate of the chain
ValidDistinctIssuers(pems) ==
    /\ \A k \in 1..Len(pems) : Parses(pems[k])
    /\ \A i, j \in 1..Len(pems) : i # j => pems[i].cert # pems[j].cert
    /\ \A k \in 1..Len(pems) :
          /\ pems[k].cert # certInfo.fingerprint
          /\ ~HasFingerprint(last.before, pems[k].cert)

\* q is a signing path from tailPem: its first signs tailPem, each next one
\* signs the one before it
IsSigningPath(q, tailPem) ==
    \A k \in 1..Len(q) : verifyParent(IF k = 1 THEN tailPem ELSE q[k - 1], q[k])

\* The orderings of a batch
Orderings(pems) ==
    {[k \in 1..Len(pems) |-> pems[f[k]]] :
        f \in {g \in [1..Len(pems) -> 1..Len(pems)] :
                  \A i, j \in 1..Len(pems) : i # j => g[i] # g[j]}}

\* Along q, the only remaining certificate that signs a tail is the next one
OneSignerPerTail(q, tailPem) ==
    \A k \in 1..Len(q) : \A j \in (k + 1)..Len(q) :
        ~verifyParent(IF k = 1 THEN tailPem ELSE q[k - 1], q[j])

AddedInOrder(q) ==
    /\ Len(last.added) = Len(q)
    /\ \A k \in 1..Len(q) : last.added[k].fingerprint = q[k].cert

\* C2 (as stated): starting from a chain with pairwise distinct fingerprints
\* that does not contain the leaf, after handleAddCa on any batch no two links
\* share a fingerprint and no link has the leaf's fingerprint.
C2_NoDuplicates ==
    (/\ AfterAdd
     /\ DistinctFingerprints(last.before)
     /\ ~HasFingerprint(last.before, certInfo.fingerprint))
    => /\ DistinctFingerprints(chainItems)
       /\ ~HasFingerprint(chainItems, certInfo.fingerprint)

\* C3: on an empty chain, a batch of N valid, distinct issuer certificates
\* (none of them the leaf) in trust order, the last self-signed, is appended
\* as exactly N links in that order, every one with signsChild = true and
\* the last with isRoot = true.
C3_InOrderBatch ==
    (/\ AfterAdd
     /\ last.before = <<>>
     /\ ValidDistinctIssuers(last.pems)
     /\ IsSigningPath(last.pems, certPem)
     /\ isSelfSigned(last.pems[Len(last.pems)]))
    => /\ AddedInOrder(last.pems)
       /\ \A k \in 1..Len(last.added) : last.added[k].signsChild
       /\ last.added[Len(last.added)].isRoot

C3_Witness ==
    /\ AfterAdd
    /\ last.before = <<>>
    /\ certPem.cert = "leaf"
    /\ last.pems = <<Canon("int"), Canon("root")>>
    /\ Len(last.added) = 2
    /\ last.added[2].isRoot

\* C4 (as stated): every appended link has signsChild equal to
\* verifyParent(its predecessor in the resulting chain, the link), and a
\* batch that forms one signing path from the leaf is appended in trust
\* order whatever its input order.
C4_OrderIndependent ==
    AfterAdd =>
        /\ \A k \in 1..Len(last.added) :
              last.added[k].signsChild = verifyParent(PredecessorPem(k), last.added[k].pem)
        /\ (last.before = <<>> /\ ValidDistinctIssuers(last.pems)) =>
              \A q \in Orderings(last.pems) :
                  IsSigningPath(q, certPem) => AddedInOrder(q)

\* C4 (amended): every appended link has signsChild equal to
\* verifyParent(its predecessor, the link), and a batch that forms one
\* signing path from the leaf, on which every tail is signed by no other
\* remaining certificate than the next one, is appended in trust order
\* whatever its input order.
C4_OrderIndependentOneSigner ==
    AfterAdd =>
        /\ \A k \in 1..Len(last.added) :
              last.added[k].signsChild = verifyParent(PredecessorPem(k), last.added[k].pem)
        /\ (last.before = <<>> /\ ValidDistinctIssuers(last.pems)) =>
              \A q \in Orderings(last.pems) :
                  (IsSigningPath(q, certPem) /\ OneSignerPerTail(q, certPem))
                      => AddedInOrder(q)

\* a batch given in reverse trust order, with a leftover case next to it
C4_Witness ==
    /\ AfterAdd
    /\ last.before = <<>>
    /\ certPem.cert = "leaf"
    /\ last.pems = <<Canon("root"), Canon("int")>>
    /\ last.added[1].fingerprint = "int"
    /\ last.added[2].fingerprint = "root"

\* C5: resolveChain issues at most maxDepth fetches and appends at most
\* maxDepth links, and every answer of the fetch collaborator either ends
\* the run or moves it one level deeper, so it ends after at most maxDepth
\* answers.
C5_BoundedResolution ==
    [][ /\ \A i \in 1..Len(runs') :
              /\ runs'[i].fetches <= maxDepth
              /\ runs'[i].depth < maxDepth
              /\ Len(runs'[i].newChain) <= runs'[i].depth
        /\ last'.op \in {"resolved", "resolveFailed"} =>
              /\ last'.fetches <= maxDepth
              /\ Len(last'.added) <= maxDepth
        /\ Len(runs') = Len(runs) =>
              \A i \in 1..Len(runs) :
                  runs'[i] = runs[i] \/ runs'[i].depth = runs[i].depth + 1 ]_vars

\* an issuance loop leaf <- int <- leaf <- ... cut at maxDepth
C5_Witness ==
    /\ last.op = "resolved"
    /\ last.fetches = maxDepth
    /\ Len(last.added) = maxDepth
    /\ chainItems = last.added

\* C6 (as stated): when a fetch or parse error ends resolveChain after k >= 1
\* links were resolved, the chain held afterwards contains those k links.
C6_PartialKept ==
    (last.op = "resolveFailed" /\ Len(last.added) >= 1)
    => \A k \in 1..Len(last.added) :
          \E j \in 1..Len(chainItems) : chainItems[j] = last.added[k]

\* C8: isSelfSigned(C) = verifyParent(C, C) for every input, parseable or
\* not, and every link of the chain, fetched or uploaded, has
\* isRoot = isSelfSigned of its certificate.
C8_RootIsSelfSigned ==
    /\ \A p \in VerifyPems \cup {NoPem} : isSelfSigned(p) = verifyParent(p, p)
    /\ \A k \in 1..Len(chainItems) :
          chainItems[k].isRoot = verifyParent(chainItems[k].pem, chainItems[k].pem)
    /\ \A i \in 1..Len(runs) : \A k \in 1..Len(runs[i].newChain) :
          runs[i].newChain[k].isRoot
              = verifyParent(runs[i].newChain[k].pem, runs[i].newChain[k].pem)

C8_Witness ==
    \E i, j \in 1..Len(chainItems) :
        /\ chainItems[i].isRoot /\ chainItems[i].source = "uploaded"
        /\ ~chainItems[j].isRoot /\ chainItems[j].source = "fetched"

\* C9 (as stated): in a batch of several blocks, blocks that do not parse
\* are dropped, the chain is extended by exactly one link per valid, novel
\* certificate of the batch, and no error is reported.
C9_TolerantIngestion ==
    (AfterAdd /\ Len(last.pems) > 1) =>
        LET novel == {last.pems[k].cert : k \in {n \in 1..Len(last.pems) :
                          /\ Parses(last.pems[n])
                          /\ last.pems[n].cert # certInfo.fingerprint
                          /\ ~HasFingerprint(last.before, last.pems[n].cert)}}
        IN  /\ Len(last.added) = Cardinality(novel)
            /\ {last.added[k].fingerprint : k \in 1..Len(last.added)} = novel
            /\ chainItems = last.before \o last.added
            /\ last.alert # "parseError"

-----------------------------------------------------------------------------
(* Claims about validation *)

Validated == report # NoReport

IsExpiredCertEntry(i) ==
    /\ EndsWithAny(rFiles[i].name, CertSuffixes)
    /\ Parses(CertTextOf(rFiles[i].content))
    /\ Validity[CertTextOf(rFiles[i].content).cert].validTo < rNow

NoCaEntry == \A i \in 1..Len(rFiles) : ~EndsWithAny(rFiles[i].name, CaSuffixes)

\* C14 (as stated): an archive that has a parseable certificate entry whose
\* validity end lies before the current time, and no CA-bundle entry, is
\* reported as expired with chainComplete = null, whatever its other
\* entries are.
C14_ExpiredNoBundle ==
    (Validated /\ NoCaEntry /\ \E i \in 1..Len(rFiles) : IsExpiredCertEntry(i))
    => /\ report.validityStatus = "expired"
       /\ report.chainComplete = "null"

\* C14 (amended): an archive whose first entry named .crt, .cer or .pem is
\* a parseable certificate whose validity end lies before the current time,
\* and that has no CA-bundle entry, is reported as expired with
\* chainComplete = null, whatever its other entries are.
C14_FirstCertExpiredNoBundle ==
    (/\ Validated
     /\ NoCaEntry
     /\ \E i \in 1..Len(rFiles) :
           /\ IsExpiredCertEntry(i)
           /\ \A j \in 1..(i - 1) : ~EndsWithAny(rFiles[j].name, CertSuffixes))
    => /\ report.validityStatus = "expired"
       /\ report.chainComplete = "null"

\* an expired certificate first, a certificate still valid and a key after it
C14_Witness ==
    /\ Validated
    /\ NoCaEntry
    /\ Len(rFiles) = 3
    /\ IsExpiredCertEntry(1)
    /\ EndsWithAny(rFiles[2].name, CertSuffixes) /\ ~IsExpiredCertEntry(2)
    /\ report.hasKey
    /\ report.validityStatus = "expired"

-----------------------------------------------------------------------------
(* Claims about fetching *)

\* An attempt failed when it gave the caller no certificate
AttemptFailed(i) ==
    IF fLog[i].target.via = "none" THEN ~DirectDelivers(fLog[i].resp)
    ELSE ~ProxyDelivers(fLog[i].resp)

\* C15: the direct fetch is attempted first; the proxy is contacted only
\* after the direct attempt failed and at most once; failure is reported
\* only after both attempts failed; a successful direct attempt means the
\* proxy is never contacted.
C15_FetchProtocol ==
    /\ Len(fLog) >= 1 => fLog[1].target = DirectUrl(fUrl)
    /\ \A i \in 1..Len(fLog) :
          fLog[i].target.via # "none"
          => i = 2 /\ fLog[i].target = ProxyUrl(fUrl) /\ AttemptFailed(1)
    /\ fpc = "failed" => Len(fLog) = 2 /\ AttemptFailed(1) /\ AttemptFailed(2)
    /\ (Len(fLog) >= 1 /\ ~AttemptFailed(1)) => Len(fLog) = 1 /\ fpc = "returned"
    /\ fpc = "direct" => fLog = <<>>

\* the direct request was answered with an error status, the proxy delivered
C15_Witness ==
    /\ fpc = "returned"
    /\ Len(fLog) = 2
    /\ fLog[1].resp.kind = "response" /\ ~fLog[1].resp.ok
    /\ fResult = Canon("int")

-----------------------------------------------------------------------------
(* Claims about automatic resolution, empty batches and removal *)

\* C16 (as stated): whatever fetchCertificate returns, the chain that
\* resolveChain stores has no two links with the same fingerprint and no
\* link with the fingerprint of the leaf it was called for.
C16_ResolvedChainDistinct ==
    last.op = "resolved"
    => /\ DistinctFingerprints(chainItems)
       /\ ~HasFingerprint(chainItems, parseCertificate(last.pems[1]).fingerprint)

\* C17: when resolveChain ends in its catch block, every link that was in
\* the chain before is still there, in the same order and with the same
\* fields.
C17_FailureKeepsChain ==
    last.op = "resolveFailed"
    => /\ Len(chainItems) >= Len(last.before)
       /\ \A k \in 1..Len(last.before) : chainItems[k] = last.before[k]

\* a resolution that had collected a link fails over a chain built by hand
C17_Witness ==
    /\ last.op = "resolveFailed"
    /\ Len(last.before) >= 1
    /\ Len(last.added) >= 1
    /\ last.added # last.before

\* No block of the batch is a certificate that is new to the chain and
\* different from the leaf
NoUsableCandidate ==
    \A k \in 1..Len(last.pems) :
        \/ ~Parses(last.pems[k])
        \/ HasFingerprint(last.before, parseCertificate(last.pems[k]).fingerprint)
        \/ parseCertificate(last.pems[k]).fingerprint = certInfo.fingerprint

\* C18: when no candidate of a batch survives parsing and deduplication
\* the chain is left unchanged; a single block that does not parse gives a
\* parse error, a single valid certificate that is already in the chain or
\* is the leaf gives the "no new certificates" notice.
C18_ZeroCandidates ==
    (AfterAdd /\ NoUsableCandidate)
    => /\ chainItems = last.before
       /\ last.added = <<>>
       /\ (Len(last.pems) = 1 /\ ~Parses(last.pems[1])) => last.alert = "parseError"
       /\ (Len(last.pems) = 1 /\ Parses(last.pems[1])) => last.alert = "noNewCerts"

\* a single unparseable text is uploaded to a chain that has a link
C18_Witness ==
    /\ AfterAdd
    /\ NoUsableCandidate
    /\ Len(last.pems) = 1
    /\ ~Parses(last.pems[1])
    /\ Len(chainItems) >= 1
    /\ last.alert = "parseError"

-----------------------------------------------------------------------------
(* Claims about the numeric header fields *)

\* Digit k (0 is the leftmost) of v written in w - 1 octal digits
OctalDigit(v, w, k) == (v \div Pow8(w - 2 - k)) % 8

\* C20: for the widths 8 and 12 and a value v with 0 <= v < 8^(w-1),
\* writeOctal writes w bytes: w - 1 ASCII octal digits, left-padded with
\* '0', then one NUL; no byte outside the field changes; readOctal of the
\* field returns v.
C20_OctalField ==
    /\ opc \in {"written", "read"} =>
          /\ Len(oBuf) = Len(oBefore)
          /\ \A k \in 0..(oLen - 2) : oBuf[oOffset + k + 1] = 48 + OctalDigit(oVal, oLen, k)
          /\ oBuf[oOffset + oLen] = 0
          /\ \A k \in 1..Len(oBuf) :
                (k <= oOffset \/ k > oOffset + oLen) => oBuf[k] = oBefore[k]
    /\ opc = "read" => oRead = [nan |-> FALSE, val |-> oVal]

\* an eleven-digit value is written into a block of 255s and read back
C20_Witness ==
    /\ opc = "read"
    /\ oLen = 12
    /\ oVal >= Pow8(10)
    /\ oBefore[oOffset + oLen] = 255
    /\ oRead.val = oVal

-----------------------------------------------------------------------------
(* Claims about the scan of untar *)

\* C21 (as stated): every entry untar returns has as content exactly the
\* bytes of the length decoded from the size field of its header, taken
\* immediately after the header; the length is a number and the bytes are
\* all inside the buffer.
C21_ContentOfDecodedLength ==
    [][ (tpc = "scan" /\ Len(uFiles') = Len(uFiles) + 1) =>
          LET size == readOctal(archive, uOffset + 124, 12)
              contentStart == uOffset + BlockSize
          IN  /\ ~size.nan
              /\ size.val >= 0
              /\ contentStart + size.val <= Len(archive)
              /\ uFiles'[Len(uFiles')].content
                    = TextDecode(SubSeq(archive, contentStart + 1, contentStart + size.val)) ]_vars

\* C25 (as stated): every iteration of the scan of untar moves the offset
\* forward by at least one 512-byte block or ends the scan, whatever the
\* size field of a header decodes to.
C25_ScanAdvances ==
    [][ tpc = "scan" => (tpc' = "done" \/ uOffset' >= uOffset + BlockSize) ]_vars

-----------------------------------------------------------------------------
(* Claims about the chain check of validation *)

\* C22 (as stated): chainComplete = true is reported only when the last
\* certificate of the CA bundle is self-signed, the leaf is signed by the
\* first bundle certificate and every bundle certificate is signed by the
\* next one.
C22_CompleteMeansRoot ==
    (Validated /\ report.chainComplete = "true") =>
        LET certFile == FindFirst(rFiles, CertSuffixes)
            caFile == FindFirst(rFiles, CaSuffixes)
            chainPems == splitCaBundle(rFiles[caFile].content)
        IN  /\ certFile # 0
            /\ caFile # 0
            /\ Len(chainPems) >= 1
            /\ isSelfSigned(chainPems[Len(chainPems)])
            /\ verifyParent(CertTextOf(rFiles[certFile].content), chainPems[1])
            /\ \A i \in 1..(Len(chainPems) - 1) : verifyParent(chainPems[i], chainPems[i + 1])

-----------------------------------------------------------------------------
(* Claims about the links of automatic resolution *)

\* The links collected for a leaf: none but the last is self-signed, and
\* each says whether it signs the certificate before it
StopsAtRoot(leafPem, links) ==
    /\ \A k \in 1..(Len(links) - 1) : ~links[k].isRoot
    /\ \A k \in 1..Len(links) :
          links[k].signsChild
             = verifyParent(IF k = 1 THEN leafPem ELSE links[k - 1].pem, links[k].pem)

\* C23: in every chain resolveChain produces no link other than the last
\* has isRoot = true; a call that still awaits a fetch has appended no
\* self-signed certificate; each appended link has signsChild =
\* verifyParent(the tail at the time of the fetch, the fetched certificate).
C23_StopsAtFirstRoot ==
    /\ \A i \in 1..Len(runs) :
          /\ StopsAtRoot(runs[i].leaf, runs[i].newChain)
          /\ \A k \in 1..Len(runs[i].newChain) : ~runs[i].newChain[k].isRoot
    /\ last.op = "resolved" =>
          /\ StopsAtRoot(last.pems[1], last.added)
          /\ chainItems = last.added
          /\ last.fetches \in {Len(last.added), Len(last.added) + 1}

\* leaf, intermediate, root: the resolution ended at the root before maxDepth,
\* and one with a link that does not sign its child
C23_Witness ==
    /\ last.op = "resolved"
    /\ Len(last.added) >= 2
    /\ Len(last.added) < maxDepth
    /\ last.added[Len(last.added)].isRoot
    /\ \E k \in 1..Len(last.added) : ~last.added[k].signsChild

-----------------------------------------------------------------------------
(* Claims about what a manual addition appends *)

\* The fingerprints of the batch that parse, are not in the chain, are not
\* the leaf and did not occur earlier in the batch, in batch order
RECURSIVE Survivors(_, _)
Survivors(pems, seen) ==
    IF pems = <<>> THEN <<>>
    ELSE LET p == Head(pems)
         IN  IF Parses(p) /\ parseCertificate(p).fingerprint \notin seen
             THEN <<parseCertificate(p).fingerprint>>
                     \o Survivors(Tail(pems), seen \cup {parseCertificate(p).fingerprint})
             ELSE Survivors(Tail(pems), seen)

SurvivorsOfLast ==
    Survivors(last.pems,
              {certInfo.fingerprint} \cup {last.before[k].fingerprint : k \in 1..Len(last.before)})

PositionIn(seq, x) == CHOOSE i \in 1..Len(seq) : seq[i] = x

\* C24 (as stated): handleAddCa appends exactly one link for every
\* candidate that survived parsing and deduplication, the links found by
\* the greedy search first and then the unconsumed candidates in their
\* batch order; the links already in the chain remain as an unchanged
\* prefix.
C24_NoLossNoDuplication ==
    AfterAdd =>
        LET sv == SurvivorsOfLast
            fps == [k \in 1..Len(last.added) |-> last.added[k].fingerprint]
        IN  /\ chainItems = last.before \o last.added
            /\ Len(fps) = Len(sv)
            /\ \A i \in 1..Len(sv) : Cardinality({k \in 1..Len(fps) : fps[k] = sv[i]}) = 1
            /\ \E g \in 0..Len(fps) :
                  /\ \A k \in 1..g : last.added[k].signsChild
                  /\ \A k, n \in (g + 1)..Len(fps) :
                        k < n => PositionIn(sv, fps[k]) < PositionIn(sv, fps[n])

-----------------------------------------------------------------------------
(* Claims about resolutions that outlive the state they were started for *)

\* C26 (as stated): when the workspace was reset while a call of
\* resolveChain awaited a fetch, the end of that call leaves the chain
\* empty and the step at UPLOAD.
C26_AbandonedLeavesNoTrace ==
    [][ (last.op = "reset" /\ Len(runs') < Len(runs))
            => (chainItems' = <<>> /\ step' = UPLOAD) ]_vars

\* C27 (as stated): when a call of resolveChain ends, the chain it stores
\* was built from the certificate that is loaded now, and the links the
\* user added by hand in the meantime are still in the chain.
C27_ChainOfCurrentLeaf ==
    [][ Len(runs') < Len(runs) =>
          /\ last'.op = "resolved" => last'.pems[1] = certPem'
          /\ \A k \in 1..Len(chainItems) :
                chainItems[k].source = "uploaded"
                => \E j \in 1..Len(chainItems') : chainItems'[j] = chainItems[k] ]_vars

-----------------------------------------------------------------------------
(* Claims about complete chains *)

\* ChainBuilder shows "Chain Complete"
IsRootReached == Len(chainItems) > 0 /\ chainItems[Len(chainItems)].isRoot

\* C28 (as stated): after additions by hand to an empty chain, whenever
\* the last link has isRoot = true every link of the chain has
\* signsChild = true.
C28_CompleteHasNoBrokenLink ==
    (AfterAdd /\ last.before = <<>> /\ IsRootReached)
    => \A k \in 1..Len(chainItems) : chainItems[k].signsChild

\* C29 (as stated): if every link of the builder's chain has
\* signsChild = true when the package is produced, validating that package
\* reports chainComplete = true.
C29_BuilderAgreesWithValidator ==
    (/\ CanPackage
     /\ Len(chainItems) >= 1
     /\ \A k \in 1..Len(chainItems) : chainItems[k].signsChild)
    => \A t \in Times :
          processTarForValidation(PackageFiles(certPem, chainItems), t).chainComplete = "true"

-----------------------------------------------------------------------------
(* Claims about the certificate request form *)

\* C30 (as stated): once the status is completed or failed it does not
\* change back to processing or requesting until a new request is
\* submitted, in every interleaving of the POST's response and the
\* WebSocket messages.
C30_StatusMonotone ==
    [][ (status \in {"completed", "failed"} /\ status' \in {"processing", "requesting"})
            => submitted' = submitted + 1 ]_vars

====
